---- MODULE Spec2Model ----
(***************************************************************************)
(* Mentis cache core: the cache service (Publish / GetByID / Delete) and   *)
(* the workflow service (CreateSession / ExecuteStep) running over the     *)
(* PostgreSQL tables of migrations/001_initial_schema.sql and the Qdrant   *)
(* collection of storage/vector/qdrant/client.go.                          *)
(*                                                                         *)
(* Every request runs in its own goroutine; a request is modelled as a     *)
(* process whose atomic steps are the single store calls of its handler    *)
(* (one SQL statement or one vector RPC each), in the order of the code.   *)
(***************************************************************************)
EXTENDS Integers, Sequences, FiniteSets, TLC

\* ----------------------------------------------------------------- bounds
NumProcs == 2
MaxCalls == 3
MaxBatch == 2
MaxItems == 2
NumContents == 2
NumClientIds == 1
MaxUUIDs == 5
MaxSessions == 2
NumInputs == 1
NumURLs == 1
MaxClock == 1

\* ------------------------------------------------------ program constants
NilUUID == 0
CollectionSize == 1536
GeminiDimensions == 768
MockDimensions == 1536
OpenAIDimensions == 1536

Procs == 1..NumProcs
Contents == 1..NumContents
ClientIds == 1..NumClientIds
StepTypes == {"scrape", "answer"}
Providers == {"mock", "openai", "gemini"}
EmptyHash == 0
NoStep == 0
Null == -1
ArtifactTypes == {"RAW", "DERIVED", "REASONING", "ANSWER"}
SentinelContent == 0
NoURL == 0
URLs == 1..NumURLs
DefaultTopK == 10
DefaultMinScore == 85
ScoreSame == 100
ScoreSimple == 90
ScoreEngine == 0

\* ------------------------------------------------------------ embeddings
\* A vector is known by the function that produced it and the text it was
\* produced from: the embedding engine (Provider.GenerateEmbedding) or the
\* hash-based placeholder of the cache service (generateSimpleEmbedding).
NoVec == << "none", 0 >>

EngineVec(text) == << "engine", text >>

generateSimpleEmbedding(text) == << "simple", text >>

\* -------------------------------------------------------------- hashing
\* SHA-256 is modelled as an injective map from byte strings to a separate
\* domain of digests (no collisions; the empty hash "" is 0).
ComputeContentHash(content) == 1000 + content

\* A JSON object as it is written in a request body: its members
\* << key, value >> in the order of the text.
Inputs == {<< << 1, i >>, << 2, i >> >> : i \in 1..NumInputs}

\* The same objects with their members in either order.
ReorderedInputs == Inputs \cup {<< b[2], b[1] >> : b \in Inputs}

NoInput == << >>

\* A decoder that keeps the first member of an object only.
Decode_FirstMember(body) ==
    [k \in {body[1][1]} |-> body[1][2]]

\* c.ShouldBindJSON into Input interface{}: an object becomes a
\* map[string]interface{}; of two members with one key the later one wins.
Decode(body) ==
    [k \in {body[n][1] : n \in 1..Len(body)} |->
        LET last == CHOOSE n \in 1..Len(body) :
                        /\ body[n][1] = k
                        /\ \A m \in (n + 1)..Len(body) : body[m][1] # k
        IN  body[last][2]]

\* The members of a map in ascending key order, as encoding/json and fmt
\* write them; each member is two digits of the text.
RECURSIVE SortedMembers(_, _)
SortedMembers(input, keys) ==
    IF keys = {} THEN 0
    ELSE LET k == CHOOSE x \in keys : \A y \in keys : y <= x
         IN  100 * SortedMembers(input, keys \ {k}) + 10 * k + input[k]

\* json.Marshal of a step input: the serialised bytes.
Marshal(input) == SortedMembers(input, DOMAIN input)

\* fmt.Sprintf("%v", input)
Sprint(input) == SortedMembers(input, DOMAIN input)

ComputeInputHash(input) == ComputeContentHash(Marshal(input))

\* ------------------------------------------------------------ variables
VARIABLES
    artifacts,   \* table artifacts: id -> row
    deps,        \* table artifact_dependencies: set of <<parent_id, child_id>>
    vectors,     \* vector collection: point id -> [dim]
    collection,  \* whether the vector collection exists
    sessions,    \* table workflow_sessions: id -> status
    steps,       \* table workflow_steps: id -> row
    procs,       \* in-flight requests: process -> local state of its handler
    uuids,       \* number of identifiers handed out by uuid.New()
    provider,    \* the embedding provider chosen at start-up
    ncalls,      \* number of requests issued so far
    nitems,      \* number of artifacts submitted to Publish so far
    embOf,       \* history: id -> length of the embedding of the artifact stored under id
    pubRec,      \* history: id -> the artifact a successful Publish reported as published
    seen,        \* history: content -> id of the stored first occurrence (0: none)
    gone,        \* history: ids whose Delete returned and that no Publish wrote since
    cascaded,    \* history: ids a Delete that overlapped no request removed with their edges, not written since
    hist,        \* history: ExecuteStep responses per (step_type, input) and per session
    now,         \* the wall clock: time.Now() of the service, NOW() of the database
    lastInv      \* history: the url of the Invalidate that was the last operation (0: none)

vars == << artifacts, deps, vectors, collection, sessions, steps, procs, uuids, provider,
           ncalls, nitems, embOf, pubRec, seen, gone, cascaded, hist, now,
           lastInv >>

stores == << artifacts, deps, vectors, collection, sessions, steps >>

\* ------------------------------------------------------------- helpers
Upsert(f, k, v) == [x \in (DOMAIN f) \cup {k} |-> IF x = k THEN v ELSE f[x]]

Remove(f, k) == [x \in (DOMAIN f) \ {k} |-> f[x]]

\* uuid.New(): an identifier nobody has used before.
NewUUID == NumClientIds + uuids + 1

CanNewUUID == uuids < MaxUUIDs

\* domain.LookupOptions; scores are in hundredths.
NoOptions == [query |-> 0, top_k |-> 0, min_score |-> 0, artifact_type |-> "",
              include_stale |-> FALSE]

IdleProc == [op |-> "none", pc |-> "idle", err |-> "", id |-> NilUUID,
             item |-> << >>, k |-> 0, log |-> << >>,
             session |-> NilUUID, step_type |-> "", input |-> NoInput,
             body |-> << >>, reordered |-> FALSE, by |-> "", down |-> FALSE,
             step |-> NoStep, cached |-> FALSE, res |-> {},
             hit |-> FALSE, fresh |-> FALSE, ovl |-> {}, snap |-> << >>,
             status |-> "",
             url |-> NoURL, opts |-> NoOptions, hits |-> {},
             rank |-> << >>, out |-> << >>]

InFlight(p) == procs[p].pc \notin {"idle", "done"}

\* A request starts: the process leaves "idle"; ovl records which requests
\* were in flight together (both sides remember it).
Begin(p, rec) ==
    LET others == {q \in Procs \ {p} : InFlight(q)}
    IN  [q \in Procs |->
            IF q = p THEN [rec EXCEPT !.ovl = others]
            ELSE IF q \in others THEN [procs[q] EXCEPT !.ovl = @ \cup {p}]
            ELSE procs[q]]

\* --------------------------------------------------- artifact repository
\* The columns of one row of table artifacts (the embedding and the
\* dependency list of a domain.Artifact are not columns).
Row(a) == [type |-> a.type, content_hash |-> a.content_hash, content |-> a.content,
           source_url |-> a.source_url, meta_type |-> a.meta_type,
           updated_at |-> a.updated_at, stale |-> a.stale]

\* CHECK (type IN (...)) of table artifacts.
TypeCheck(a) == a.type \in ArtifactTypes

\* Trigger update_artifacts_updated_at: BEFORE UPDATE, NEW.updated_at = NOW().
update_updated_at_column(row) == [row EXCEPT !.updated_at = now]

\* ArtifactRepository.Store: INSERT ... ON CONFLICT (id) DO UPDATE.
ArtifactStore(tbl, a) ==
    Upsert(tbl, a.id, IF a.id \in DOMAIN tbl THEN update_updated_at_column(Row(a))
                      ELSE Row(a))

\* ArtifactRepository.scanArtifact: a domain.Artifact built from a row;
\* Embedding and Dependencies keep their zero values.
scanArtifact(tbl, id) ==
    [id |-> id, type |-> tbl[id].type, content_hash |-> tbl[id].content_hash,
     content |-> tbl[id].content, embedding |-> 0, vec |-> NoVec,
     dependencies |-> << >>, source_url |-> tbl[id].source_url,
     meta_type |-> tbl[id].meta_type, updated_at |-> tbl[id].updated_at,
     stale |-> tbl[id].stale]

\* ArtifactRepository.GetByID: the row with that id, or nil.
GetByID(tbl, id) == IF id \in DOMAIN tbl THEN {scanArtifact(tbl, id)} ELSE {}

\* ArtifactRepository.GetByContentHash: the ids of the rows the query can
\* return (QueryRow takes the first row of an unordered SELECT).
GetByContentHash(tbl, hash) == {id \in DOMAIN tbl : tbl[id].content_hash = hash}

\* ArtifactRepository.Delete: DELETE FROM artifacts WHERE id = $1.
ArtifactDelete(tbl, id) == Remove(tbl, id)

\* The delete without the cascade: the edges of the deleted artifact stay.
CascadeDependencies_NoCascade(d, id) == d

\* ON DELETE CASCADE of artifact_dependencies.parent_id / child_id.
CascadeDependencies(d, id) == {e \in d : e[1] # id /\ e[2] # id}

\* A cascade that re-opens the steps of the deleted artifact.
SetNullArtifact_Reopen(st, id) ==
    [x \in DOMAIN st |-> IF st[x].artifact_id = id
                         THEN [st[x] EXCEPT !.artifact_id = Null, !.status = "pending"]
                         ELSE st[x]]

\* ON DELETE SET NULL of workflow_steps.artifact_id.
SetNullArtifact(st, id) ==
    [x \in DOMAIN st |-> IF st[x].artifact_id = id
                         THEN [st[x] EXCEPT !.artifact_id = Null] ELSE st[x]]

\* The table without its foreign keys.
DependencyFK_Unchecked(tbl, parent, child) == TRUE

\* REFERENCES artifacts(id) on both columns of artifact_dependencies.
DependencyFK(tbl, parent, child) == parent \in DOMAIN tbl /\ child \in DOMAIN tbl

\* ArtifactRepository.GetDependencies: SELECT child_id ... WHERE parent_id = $1.
GetDependencies(d, artifactID) == {e[2] : e \in {x \in d : x[1] = artifactID}}

\* ArtifactRepository.GetDependents: SELECT parent_id ... WHERE child_id = $1.
GetDependents(d, artifactID) == {e[1] : e \in {x \in d : x[2] = artifactID}}

\* ArtifactRepository.StoreDependency: INSERT ... ON CONFLICT DO NOTHING.
StoreDependency(d, parent, child) == d \cup {<< parent, child >>}

\* An update that marks every row.
MarkStaleBySourceURL_All(tbl, u) ==
    [id \in DOMAIN tbl |-> update_updated_at_column([tbl[id] EXCEPT !.stale = TRUE])]

\* ArtifactRepository.MarkStaleBySourceURL: UPDATE artifacts SET stale = true,
\* updated_at = NOW() WHERE metadata->>'source_url' = $1.
MarkStaleBySourceURL(tbl, u) ==
    [id \in DOMAIN tbl |->
        IF tbl[id].source_url = u
        THEN update_updated_at_column([tbl[id] EXCEPT !.stale = TRUE])
        ELSE tbl[id]]

\* ----------------------------------------------------- vector repository
\* Repository.Store: the collection is created with Size 1536 and the
\* upsert of a vector of another length is rejected by the index.
VectorAccepts(dim) == dim = CollectionSize

\* The point written for an artifact: its vector and, as payload, its metadata.
Embedding(a) == [dim |-> a.embedding, vec |-> a.vec]

Metadata(a) == [type |-> a.meta_type, source_url |-> a.source_url]

VectorStore(vs, id, embedding, metadata) ==
    Upsert(vs, id, [dim |-> embedding.dim, vec |-> embedding.vec,
                    payload |-> metadata])

\* Repository.Delete: deleting an absent point is not an error.
VectorDelete(vs, id) == Remove(vs, id)

\* Cosine similarity of a query vector and a stored vector, in hundredths:
\* 1.00 for the same vector, 0.86 to 0.95 between the placeholder vectors of
\* two different texts, below zero between a placeholder vector and an
\* engine vector.
Cosine(q, v) ==
    CASE v = q -> ScoreSame
      [] v[1] = q[1] -> ScoreSimple
      [] OTHER -> ScoreEngine

StringValue(v) == [kind |-> "string", val |-> v]

BoolValue(b) == [kind |-> "bool", val |-> IF b THEN "true" ELSE "false"]

\* A search that turns every filter entry into a condition.
Conditions_AllKinds(filter) == filter

\* Repository.Search keeps the filter entries whose value is a Go string.
Conditions(filter) == {kv \in filter : kv[2].kind = "string"}

\* qdrant.NewMatch(key, value) on the payload of a point; the payloads of the
\* model carry no other string key than "type".
Match(point, cond) ==
    /\ cond[1] = "type"
    /\ point.payload.type # ""
    /\ point.payload.type = cond[2].val

\* Limit: the topK best candidates (any of them on equal scores).
TopHits(vs, q, cands, topK) ==
    {S \in SUBSET cands :
        /\ Cardinality(S) = IF Cardinality(cands) < topK THEN Cardinality(cands)
                            ELSE topK
        /\ \A x \in S, y \in cands \ S :
               Cosine(q, vs[x].vec) >= Cosine(q, vs[y].vec)}

\* Repository.Search: the possible result sets (point ids).
Search(vs, q, topK, minScore, filter) ==
    TopHits(vs, q,
            {id \in DOMAIN vs :
                /\ minScore > 0 => Cosine(q, vs[id].vec) >= minScore
                /\ \A cond \in Conditions(filter) : Match(vs[id], cond)},
            topK)

\* The response of a query lists its points by descending score (points of
\* one score in any order).
Ranked(vs, q, S) ==
    {r \in [1..Cardinality(S) -> S] :
        /\ \A i, j \in 1..Cardinality(S) : i # j => r[i] # r[j]
        /\ \A i, j \in 1..Cardinality(S) :
               i < j => Cosine(q, vs[r[i]].vec) >= Cosine(q, vs[r[j]].vec)}

\* Repository.Search can only return points of the collection.
SearchIds(vs) == DOMAIN vs

\* CacheService.Lookup drops the hits whose artifact GetByID does not find.
LookupIds(vs, tbl) == {id \in SearchIds(vs) : GetByID(tbl, id) # {}}

\* -------------------------------------------------------- Publish inputs
DefaultItem(c) ==
    [id |-> NilUUID, type |-> "RAW", content_hash |-> EmptyHash, content |-> c,
     embedding |-> CollectionSize, vec |-> EngineVec(c), dependencies |-> << >>,
     source_url |-> NoURL, meta_type |-> "", updated_at |-> 0, stale |-> FALSE]

\* The artifacts a client submits: the default one and its variations in one
\* field: a client-chosen id, a client-supplied content_hash, no embedding,
\* an embedding of another length, a declared dependency.
PublishInputs ==
    UNION { { DefaultItem(c),
              [DefaultItem(c) EXCEPT !.content_hash = ComputeContentHash(1)],
              [DefaultItem(c) EXCEPT !.embedding = 0],
              [DefaultItem(c) EXCEPT !.embedding = GeminiDimensions] }
            \cup { [DefaultItem(c) EXCEPT !.id = x] : x \in ClientIds }
            \cup { [DefaultItem(c) EXCEPT !.dependencies = << x >>, !.embedding = 0]
                      : x \in ClientIds }
          : c \in Contents }

\* The artifacts submitted to an indexed cache: with a vector that Lookup can
\* match and a source url, with a metadata key "type" that differs from the
\* artifact type, with the engine's embedding of the content, with a
\* client-chosen id that is declared as its own dependency (and a source
\* url), and with a dependency on a client-chosen id.
LookupInputs ==
    UNION { { [DefaultItem(c) EXCEPT !.vec = generateSimpleEmbedding(c),
                                     !.source_url = 1],
              [DefaultItem(c) EXCEPT !.vec = generateSimpleEmbedding(c),
                                     !.type = "ANSWER", !.meta_type = "RAW"],
              DefaultItem(c) }
            \cup { [DefaultItem(c) EXCEPT !.id = x, !.dependencies = << x >>,
                                          !.source_url = 1, !.embedding = 0]
                      : x \in ClientIds }
            \cup { [DefaultItem(c) EXCEPT !.dependencies = << x >>, !.embedding = 0]
                      : x \in ClientIds }
          : c \in Contents }

\* ------------------------------------------------- CacheService.Publish
Cur(p) == procs[p].item[1]

LogEntry(a, outcome, id) == [art |-> a, outcome |-> outcome, id |-> id]

Published(p) == {procs[p].log[n].id : n \in {m \in 1..Len(procs[p].log) :
                                              procs[p].log[m].outcome = "published"}}

Skipped(p) == {procs[p].log[n].id : n \in {m \in 1..Len(procs[p].log) :
                                            procs[p].log[m].outcome = "skipped"}}

\* published = append(published, artifact.ID): the loop goes to the next artifact.
FinishItem(rec) ==
    [rec EXCEPT !.log = Append(@, LogEntry(rec.item[1], "published", rec.item[1].id)),
                !.item = << >>, !.k = 0, !.pc = "pub_next"]

\* What follows the vector step of the loop body: the dependency loop.
AfterVector(rec) ==
    IF Len(rec.item[1].dependencies) > 0
    THEN [rec EXCEPT !.pc = "pub_deps", !.k = 1]
    ELSE FinishItem(rec)

\* What follows artifactRepo.Store: the vector step if there is an embedding.
AfterStore(rec) ==
    IF rec.item[1].embedding > 0
    THEN [rec EXCEPT !.pc = "pub_vec"]
    ELSE AfterVector(rec)

Fail(rec, why) == [rec EXCEPT !.pc = "done", !.err = why]

PublishBegin(p) ==
    /\ procs[p].pc = "idle"
    /\ ncalls < MaxCalls
    /\ ncalls' = ncalls + 1
    /\ procs' = Begin(p, [IdleProc EXCEPT !.op = "Publish", !.pc = "pub_next"])
    /\ UNCHANGED << stores, uuids, provider, nitems, embOf, pubRec, seen, gone,
                    cascaded, hist,
                    now >>
    /\ lastInv' = NoURL

\* Top of the loop for the next artifact of the batch: id, timestamps and
\* content hash are filled in, then GetByContentHash decides skip or store.
PublishItem(p, inputs) ==
    /\ procs[p].op = "Publish"
    /\ procs[p].pc = "pub_next"
    /\ Len(procs[p].log) < MaxBatch
    /\ nitems < MaxItems
    /\ \E it \in inputs :
         /\ it.id = NilUUID => CanNewUUID
         /\ LET a == [it EXCEPT
                        !.id = IF it.id = NilUUID THEN NewUUID ELSE it.id,
                        !.updated_at = now,
                        !.content_hash = IF it.content_hash = EmptyHash
                                         THEN ComputeContentHash(it.content)
                                         ELSE it.content_hash]
                existing == GetByContentHash(artifacts, a.content_hash)
            IN  IF existing # {}
                THEN /\ \E e \in existing :
                          procs' = [procs EXCEPT ![p].log =
                                       Append(@, LogEntry(a, "skipped", e))]
                     /\ UNCHANGED uuids
                ELSE /\ procs' = [procs EXCEPT ![p].item = << a >>,
                                                ![p].pc = "pub_store"]
                     /\ uuids' = IF it.id = NilUUID THEN uuids + 1 ELSE uuids
    /\ nitems' = nitems + 1
    /\ UNCHANGED << stores, provider, ncalls, embOf, pubRec, seen, gone, cascaded,
                    hist,
                    now, lastInv >>

PublishNext(p) == PublishItem(p, PublishInputs)

PublishNextIndexed(p) == PublishItem(p, LookupInputs)

\* The artifacts submitted under a client-chosen id, with a vector that
\* Lookup can match or without embedding, and one under a new id whose
\* metadata has a key "type".
IndexInputs ==
    UNION { { [DefaultItem(c) EXCEPT !.vec = generateSimpleEmbedding(c),
                                     !.meta_type = "RAW"] }
            \cup { [DefaultItem(c) EXCEPT !.id = x,
                                          !.vec = generateSimpleEmbedding(c)]
                      : x \in ClientIds }
            \cup { [DefaultItem(c) EXCEPT !.id = x, !.embedding = 0]
                      : x \in ClientIds }
          : c \in Contents }

PublishNextKeyed(p) ==
    /\ procs[p].op = "Publish"
    /\ PublishItem(p, IndexInputs)

\* s.artifactRepo.Store(ctx, &artifact)
PublishStore(p) ==
    /\ procs[p].op = "Publish"
    /\ procs[p].pc = "pub_store"
    /\ LET a == Cur(p)
       IN  IF TypeCheck(a)
           THEN /\ artifacts' = ArtifactStore(artifacts, a)
                /\ embOf' = Upsert(embOf, a.id, a.embedding)
                /\ pubRec' = Remove(pubRec, a.id)
                /\ seen' = IF a.content \in DOMAIN seen /\ seen[a.content] = 0
                           THEN [seen EXCEPT ![a.content] = a.id] ELSE seen
                /\ gone' = gone \ {a.id}
                /\ cascaded' = cascaded \ {a.id}
                /\ procs' = [procs EXCEPT ![p] = AfterStore(@)]
           ELSE /\ procs' = [procs EXCEPT ![p] = Fail(@, "store_artifact")]
                /\ UNCHANGED << artifacts, embOf, pubRec, seen, gone, cascaded >>
    /\ UNCHANGED << deps, vectors, collection, sessions, steps, uuids, provider, ncalls,
                    nitems, hist,
                    now >>
    /\ lastInv' = NoURL

\* s.vectorRepo.Store(ctx, artifact.ID, artifact.Embedding, artifact.Metadata)
\* as one call: ensureCollection leaves the collection in place, then the
\* upsert.
PublishVector(p) ==
    /\ procs[p].op = "Publish"
    /\ procs[p].pc = "pub_vec"
    /\ collection' = TRUE
    /\ LET a == Cur(p)
       IN  IF VectorAccepts(a.embedding)
           THEN /\ vectors' = VectorStore(vectors, a.id, Embedding(a), Metadata(a))
                /\ gone' = gone \ {a.id}
                /\ cascaded' = cascaded \ {a.id}
                /\ procs' = [procs EXCEPT ![p] = AfterVector(@)]
           ELSE /\ procs' = [procs EXCEPT ![p] = Fail(@, "store_vector")]
                /\ UNCHANGED << vectors, gone, cascaded >>
    /\ UNCHANGED << artifacts, deps, sessions, steps, uuids, provider, ncalls,
                    nitems, embOf, pubRec, seen, hist,
                    now >>
    /\ lastInv' = NoURL

\* Repository.Store call by call. ensureCollection: r.client.ListCollections;
\* the collection is there, or has to be created.
PublishEnsure(p) ==
    /\ procs[p].op = "Publish"
    /\ procs[p].pc = "pub_vec"
    /\ procs' = [procs EXCEPT ![p].pc = IF collection THEN "pub_upsert"
                                        ELSE "pub_create"]
    /\ UNCHANGED << stores, uuids, provider, ncalls, nitems, embOf, pubRec, seen,
                    gone, cascaded, hist, now, lastInv >>

\* ensureCollection: r.client.CreateCollection, which the server refuses for
\* a collection that exists; the error ends Store and the Publish.
PublishCreate(p) ==
    /\ procs[p].op = "Publish"
    /\ procs[p].pc = "pub_create"
    /\ IF collection
       THEN /\ procs' = [procs EXCEPT ![p] = Fail(@, "create_collection")]
            /\ UNCHANGED collection
       ELSE /\ procs' = [procs EXCEPT ![p].pc = "pub_upsert"]
            /\ collection' = TRUE
    /\ UNCHANGED << artifacts, deps, vectors, sessions, steps, uuids, provider,
                    ncalls, nitems, embOf, pubRec, seen, gone, cascaded, hist,
                    now >>
    /\ lastInv' = NoURL

\* r.client.Upsert of the point, into the collection.
PublishUpsert(p) ==
    /\ procs[p].op = "Publish"
    /\ procs[p].pc = "pub_upsert"
    /\ collection
    /\ LET a == Cur(p)
       IN  IF VectorAccepts(a.embedding)
           THEN /\ vectors' = VectorStore(vectors, a.id, Embedding(a), Metadata(a))
                /\ gone' = gone \ {a.id}
                /\ cascaded' = cascaded \ {a.id}
                /\ procs' = [procs EXCEPT ![p] = AfterVector(@)]
           ELSE /\ procs' = [procs EXCEPT ![p] = Fail(@, "store_vector")]
                /\ UNCHANGED << vectors, gone, cascaded >>
    /\ UNCHANGED << artifacts, deps, collection, sessions, steps, uuids, provider,
                    ncalls, nitems, embOf, pubRec, seen, hist,
                    now >>
    /\ lastInv' = NoURL

\* s.artifactRepo.StoreDependency(ctx, depID, artifact.ID), one edge per step.
PublishDependency(p) ==
    /\ procs[p].op = "Publish"
    /\ procs[p].pc = "pub_deps"
    /\ LET a == Cur(p)
           depID == a.dependencies[procs[p].k]
       IN  IF DependencyFK(artifacts, depID, a.id)
           THEN /\ deps' = StoreDependency(deps, depID, a.id)
                /\ procs' = [procs EXCEPT ![p] =
                               IF @.k < Len(a.dependencies)
                               THEN [@ EXCEPT !.k = @ + 1]
                               ELSE FinishItem(@)]
           ELSE /\ procs' = [procs EXCEPT ![p] = Fail(@, "store_dependency")]
                /\ UNCHANGED deps
    /\ UNCHANGED << artifacts, vectors, collection, sessions, steps, uuids, provider, ncalls,
                    nitems, embOf, pubRec, seen, gone, cascaded, hist,
                    now >>
    /\ lastInv' = NoURL

\* End of the batch: return &PublishResponse{Published, Skipped}, nil.
PublishReturn(p) ==
    /\ procs[p].op = "Publish"
    /\ procs[p].pc = "pub_next"
    /\ procs' = [procs EXCEPT ![p].pc = "done"]
    /\ pubRec' = [id \in (DOMAIN pubRec) \cup Published(p) |->
                    IF id \in Published(p)
                    THEN (CHOOSE e \in {procs[p].log[n] : n \in 1..Len(procs[p].log)} :
                              e.outcome = "published" /\ e.id = id).art
                    ELSE pubRec[id]]
    /\ UNCHANGED << stores, uuids, provider, ncalls, nitems, embOf, seen, gone,
                    cascaded, hist,
                    now, lastInv >>

\* ------------------------------------------------- CacheService.GetByID
GetTargets == ClientIds \cup DOMAIN artifacts \cup gone

CacheGetByID(p) ==
    /\ procs[p].pc = "idle"
    /\ ncalls < MaxCalls
    /\ ncalls' = ncalls + 1
    /\ \E id \in GetTargets :
         procs' = [procs EXCEPT ![p] =
                     [IdleProc EXCEPT !.op = "GetByID", !.pc = "done", !.id = id,
                                      !.res = GetByID(artifacts, id),
                                      !.snap = IF id \in DOMAIN pubRec
                                               THEN << pubRec[id] >> ELSE << >>]]
    /\ UNCHANGED << stores, uuids, provider, nitems, embOf, pubRec, seen, gone,
                    cascaded, hist,
                    now >>
    /\ lastInv' = NoURL

\* ------------------------------------------------ CacheService.Invalidate
\* s.artifactRepo.MarkStaleBySourceURL(ctx, sourceURL): one statement.
Invalidate(p) ==
    /\ procs[p].pc = "idle"
    /\ ncalls < MaxCalls
    /\ ncalls' = ncalls + 1
    /\ \E u \in URLs :
         /\ artifacts' = MarkStaleBySourceURL(artifacts, u)
         /\ procs' = [procs EXCEPT ![p] =
                        [IdleProc EXCEPT !.op = "Invalidate", !.pc = "done",
                                         !.url = u,
                                         !.k = Cardinality({id \in DOMAIN artifacts :
                                                   artifacts[id].source_url = u})]]
         /\ lastInv' = u
    /\ UNCHANGED << deps, vectors, collection, sessions, steps, uuids, provider, nitems, embOf,
                    pubRec, seen, gone, cascaded, hist, now >>

\* ---------------------------------------------------- CacheService.Lookup
DefaultOptions(q) == [NoOptions EXCEPT !.query = q]

\* The options a client sends: the query alone, and its variations in one
\* field: top_k, min_score, artifact_type, include_stale.
LookupOptions ==
    UNION { { DefaultOptions(q),
              [DefaultOptions(q) EXCEPT !.top_k = 1],
              [DefaultOptions(q) EXCEPT !.min_score = 99],
              [DefaultOptions(q) EXCEPT !.artifact_type = "RAW"],
              [DefaultOptions(q) EXCEPT !.include_stale = TRUE] }
          : q \in Contents }

\* if options.TopK == 0 { options.TopK = 10 }
TopK(options) == IF options.top_k = 0 THEN DefaultTopK ELSE options.top_k

\* if options.MinScore == 0 { options.MinScore = 0.85 }
MinScore(options) ==
    IF options.min_score = 0 THEN DefaultMinScore ELSE options.min_score

\* filter["type"] = string(options.ArtifactType); filter["stale"] = false
BuildFilter(options) ==
    (IF options.artifact_type # ""
     THEN {<< "type", StringValue(options.artifact_type) >>} ELSE {})
    \cup (IF ~ options.include_stale
          THEN {<< "stale", BoolValue(FALSE) >>} ELSE {})

\* The options sent to an index of client-keyed artifacts: the query alone
\* and the query with an artifact_type.
IndexOptions ==
    UNION { { DefaultOptions(q),
              [DefaultOptions(q) EXCEPT !.artifact_type = "RAW"] }
          : q \in Contents }

LookupCall(p, options) ==
    /\ ncalls < MaxCalls
    /\ ncalls' = ncalls + 1
    /\ \E o \in options :
         procs' = Begin(p, [IdleProc EXCEPT !.op = "Lookup", !.pc = "lk_search",
                                            !.opts = o])
    /\ lastInv' = NoURL
    /\ UNCHANGED << stores, uuids, provider, nitems, embOf, pubRec, seen, gone,
                    cascaded, hist, now >>

LookupBegin(p) ==
    /\ procs[p].pc = "idle"
    /\ LookupCall(p, LookupOptions)

LookupBeginIndexed(p) ==
    /\ procs[p].pc = "idle"
    /\ LookupCall(p, IndexOptions)

\* s.vectorRepo.Search(ctx, queryEmbedding, options.TopK, options.MinScore, filter):
\* hits is the set of points of the response, rank the part of the response
\* the enrich loop has yet to visit, in its order.
LookupSearch(p) ==
    /\ procs[p].op = "Lookup"
    /\ procs[p].pc = "lk_search"
    /\ \E S \in Search(vectors, generateSimpleEmbedding(procs[p].opts.query),
                        TopK(procs[p].opts), MinScore(procs[p].opts),
                        BuildFilter(procs[p].opts)) :
         \E r \in Ranked(vectors, generateSimpleEmbedding(procs[p].opts.query), S) :
             procs' = [procs EXCEPT ![p].hits = S,
                                    ![p].rank = r,
                                    ![p].snap = << [vs |-> vectors, arts |-> artifacts] >>,
                                    ![p].pc = IF S = {} THEN "done" ELSE "lk_enrich"]
    /\ UNCHANGED << stores, uuids, provider, ncalls, nitems, embOf, pubRec, seen,
                    gone, cascaded, hist, now, lastInv >>

\* LookupResult{Artifact, Score: vr.Score}
LookupResult(id, score) == [id |-> id, score |-> score]

\* An enrich loop that appends a result for a hit whose artifact is missing.
LookupEnrich_KeepMissing(p) ==
    /\ procs[p].op = "Lookup"
    /\ procs[p].pc = "lk_enrich"
    /\ LET id == Head(procs[p].rank)
           score == Cosine(generateSimpleEmbedding(procs[p].opts.query),
                           procs[p].snap[1].vs[id].vec)
       IN  procs' = [procs EXCEPT ![p].rank = Tail(@),
                                  ![p].res = @ \cup GetByID(artifacts, id),
                                  ![p].out = Append(@, LookupResult(id, score)),
                                  ![p].pc = IF Len(procs[p].rank) = 1 THEN "done"
                                            ELSE "lk_enrich"]
    /\ UNCHANGED << stores, uuids, provider, ncalls, nitems, embOf, pubRec, seen,
                    gone, cascaded, hist, now, lastInv >>

\* The enrich loop, one hit per step in the order of the response:
\* s.artifactRepo.GetByID(ctx, vr.Artifact.ID); a hit without artifact is
\* dropped, the others are appended to results with the score of the hit.
LookupEnrich(p) ==
    /\ procs[p].op = "Lookup"
    /\ procs[p].pc = "lk_enrich"
    /\ LET id == Head(procs[p].rank)
           score == Cosine(generateSimpleEmbedding(procs[p].opts.query),
                           procs[p].snap[1].vs[id].vec)
           found == GetByID(artifacts, id)
       IN  procs' = [procs EXCEPT ![p].rank = Tail(@),
                                  ![p].res = @ \cup found,
                                  ![p].out = IF found = {} THEN @
                                             ELSE Append(@, LookupResult(id, score)),
                                  ![p].pc = IF Len(procs[p].rank) = 1 THEN "done"
                                            ELSE "lk_enrich"]
    /\ UNCHANGED << stores, uuids, provider, ncalls, nitems, embOf, pubRec, seen,
                    gone, cascaded, hist, now, lastInv >>

\* The wall clock advances.
Tick ==
    /\ now < MaxClock
    /\ now' = now + 1
    /\ UNCHANGED << stores, procs, uuids, provider, ncalls, nitems, embOf, pubRec,
                    seen, gone, cascaded, hist, lastInv >>

\* ------------------------------------------------------- response history
\* hist is keyed by << session, step_type, input >>; the key with session
\* Null collects the calls of every session for (step_type, input).
PairKey(rec) == << Null, rec.step_type, rec.input >>

TripleKey(rec) == << rec.session, rec.step_type, rec.input >>

NoHist == [n |-> 0, art |-> Null, ok |-> TRUE]

HistGet(h) == IF h \in DOMAIN hist THEN hist[h] ELSE NoHist

\* An ExecuteStep call counted under key h is in flight.
Executing(h) ==
    \E q \in Procs : /\ InFlight(q)
                     /\ procs[q].op = "ExecuteStep"
                     /\ h \in {PairKey(procs[q]), TripleKey(procs[q])}

\* The id of the artifact an ExecuteStep response carries (Null: no artifact).
ResponseArtifact(rec) ==
    IF rec.res = {} THEN Null ELSE (CHOOSE a \in rec.res : TRUE).id

\* ExecuteStep returns rec: the response is appended to the history of its
\* keys, and rec keeps what the history was before.
Snapshot(rec) ==
    [rec EXCEPT !.snap = << HistGet(PairKey(rec)), HistGet(TripleKey(rec)) >>]

HistAfter(rec) ==
    LET keys == {PairKey(rec), TripleKey(rec)}
    IN  [h \in (DOMAIN hist) \cup keys |->
            IF h \in keys
            THEN [n   |-> IF HistGet(h).n < 2 THEN HistGet(h).n + 1 ELSE 2,
                  art |-> IF HistGet(h).n = 0 THEN ResponseArtifact(rec)
                          ELSE HistGet(h).art,
                  ok  |-> HistGet(h).ok /\ rec.err = ""]
            ELSE hist[h]]

\* -------------------------------------------------- CacheService.Delete
DeleteBegin(p) ==
    /\ procs[p].pc = "idle"
    /\ ncalls < MaxCalls
    /\ ncalls' = ncalls + 1
    /\ \E id \in GetTargets :
         procs' = Begin(p, [IdleProc EXCEPT !.op = "Delete", !.pc = "del_vec",
                                            !.id = id])
    /\ UNCHANGED << stores, uuids, provider, nitems, embOf, pubRec, seen, gone,
                    cascaded, hist,
                    now >>
    /\ lastInv' = NoURL

\* s.vectorRepo.Delete(ctx, id)
DeleteVector(p) ==
    /\ procs[p].op = "Delete"
    /\ procs[p].pc = "del_vec"
    /\ vectors' = VectorDelete(vectors, procs[p].id)
    /\ UNCHANGED collection
    /\ procs' = [procs EXCEPT ![p].pc = "del_art",
                              ![p].hit = procs[p].id \in DOMAIN vectors]
    /\ UNCHANGED << artifacts, deps, sessions, steps, uuids, provider, ncalls,
                    nitems, embOf, pubRec, seen, gone, cascaded, hist,
                    now >>
    /\ lastInv' = NoURL

\* s.artifactRepo.Delete(ctx, id), with the cascades of the schema.
DeleteArtifact(p) ==
    /\ procs[p].op = "Delete"
    /\ procs[p].pc = "del_art"
    /\ LET id == procs[p].id
       IN  /\ artifacts' = ArtifactDelete(artifacts, id)
           /\ deps' = CascadeDependencies(deps, id)
           /\ steps' = SetNullArtifact(steps, id)
           /\ procs' = [procs EXCEPT ![p].pc = "done",
                                     ![p].k = IF id \in DOMAIN artifacts THEN 1 ELSE 0]
           /\ embOf' = Remove(embOf, id)
           /\ pubRec' = Remove(pubRec, id)
           /\ seen' = [c \in DOMAIN seen |-> IF seen[c] = id THEN 0 ELSE seen[c]]
           /\ gone' = gone \cup {id}
           /\ cascaded' = IF /\ procs[p].ovl = {}
                             /\ \E e \in deps : e[1] = id \/ e[2] = id
                          THEN cascaded \cup {id} ELSE cascaded
           /\ hist' = [h \in DOMAIN hist |->
                          IF hist[h].n > 0 \/ Executing(h)
                          THEN [hist[h] EXCEPT !.ok = FALSE] ELSE hist[h]]
    /\ UNCHANGED << vectors, collection, sessions, uuids, provider, ncalls, nitems,
                    now >>
    /\ lastInv' = NoURL

\* The response has been delivered; the process can serve another request.
Return(p) ==
    /\ procs[p].pc = "done"
    /\ procs' = [procs EXCEPT ![p] = IdleProc]
    /\ UNCHANGED << stores, uuids, provider, ncalls, nitems, embOf, pubRec, seen,
                    gone, cascaded, hist,
                    now, lastInv >>

\* ------------------------------------------------- workflow repository
\* The lookup without its status condition.
FindStepByInputHash_AnyStatus(st, stepType, inputHash) ==
    {x \in DOMAIN st : /\ st[x].step_type = stepType
                       /\ st[x].input_hash = inputHash}

\* The lookup without its step_type condition.
FindStepByInputHash_AnyType(st, stepType, inputHash) ==
    {x \in DOMAIN st : /\ st[x].input_hash = inputHash
                       /\ st[x].status = "completed"}

\* WorkflowRepository.FindStepByInputHash: the completed steps of the pair
\* (ORDER BY created_at DESC LIMIT 1 picks one of them).
FindStepByInputHash(st, stepType, inputHash) ==
    {x \in DOMAIN st : /\ st[x].step_type = stepType
                       /\ st[x].input_hash = inputHash
                       /\ st[x].status = "completed"}

\* scanStep: a NULL artifact_id leaves step.ArtifactID at uuid.Nil.
scanStepArtifactID(st, x) ==
    IF st[x].artifact_id = Null THEN NilUUID ELSE st[x].artifact_id

\* workflow_steps.session_id NOT NULL REFERENCES workflow_sessions(id)
SessionFK(ss, session) == session \in DOMAIN ss

\* workflow_steps.artifact_id REFERENCES artifacts(id); the Go field is a
\* uuid.UUID value, so the statement always carries an id, never NULL.
ArtifactFK(tbl, artifactID) == artifactID \in DOMAIN tbl

\* The table without its unique index.
DedupIndex_Absent(st, x, row) == TRUE

\* CREATE UNIQUE INDEX idx_workflow_steps_dedup ON workflow_steps
\* (step_type, input_hash) WHERE status = 'completed'
DedupIndex(st, x, row) ==
    row.status = "completed" =>
        \A y \in (DOMAIN st) \ {x} :
            ~ ( /\ st[y].status = "completed"
                /\ st[y].step_type = row.step_type
                /\ st[y].input_hash = row.input_hash )

\* WorkflowRepository.StoreStep succeeds.
StoreStepOk(st, ss, tbl, x, row) ==
    /\ SessionFK(ss, row.session_id)
    /\ ArtifactFK(tbl, row.artifact_id)
    /\ DedupIndex(st, x, row)

\* WorkflowRepository.UpdateStep succeeds (UPDATE ... WHERE id = $1).
UpdateStepOk(st, tbl, x, row) ==
    /\ ArtifactFK(tbl, row.artifact_id)
    /\ DedupIndex(st, x, row)

\* ------------------------------------------------------ embedding engine
GetDimensions(prov) ==
    CASE prov = "gemini" -> GeminiDimensions
      [] prov = "openai" -> OpenAIDimensions
      [] OTHER           -> MockDimensions

\* MockProvider.GenerateEmbedding never returns an error; the remote
\* providers return one when the HTTP call fails.
CanFail(prov) == prov # "mock"

\* simulateStepExecution: step type -> artifact type.
ArtifactTypeFor(stepType) ==
    CASE stepType = "scrape" -> "RAW"
      [] stepType \in {"process", "embed"} -> "DERIVED"
      [] stepType = "reason" -> "REASONING"
      [] stepType = "answer" -> "ANSWER"
      [] OTHER -> "DERIVED"

\* fmt.Sprintf("Result of %s step with input: %v", step.StepType, input)
StepContent(stepType, input) ==
    10000 * (IF stepType = "scrape" THEN 1 ELSE 2) + Sprint(input)

\* A service that answers a failure of its provider with the mock provider.
GenerateEmbedding_MockFallback(prov, text, up) ==
    IF up \/ ~ CanFail(prov)
    THEN [err |-> FALSE, dim |-> GetDimensions(prov), vec |-> EngineVec(text),
          by |-> prov]
    ELSE [err |-> FALSE, dim |-> MockDimensions, vec |-> EngineVec(text),
          by |-> "mock"]

\* Service.GenerateEmbedding: s.provider.GenerateEmbedding(ctx, text); up
\* tells whether the provider's API answers. by names the provider that
\* produced the vector.
GenerateEmbedding(prov, text, up) ==
    IF up \/ ~ CanFail(prov)
    THEN [err |-> FALSE, dim |-> GetDimensions(prov), vec |-> EngineVec(text),
          by |-> prov]
    ELSE [err |-> TRUE, dim |-> 0, vec |-> NoVec, by |-> ""]

\* simulateStepExecution after its embedding e was generated.
simulateStepExecution(id, stepType, input, e) ==
    [id |-> id, type |-> ArtifactTypeFor(stepType),
     content_hash |-> ComputeContentHash(StepContent(stepType, input)),
     content |-> StepContent(stepType, input),
     embedding |-> e.dim,
     vec |-> e.vec, dependencies |-> << >>,
     source_url |-> NoURL, meta_type |-> "", updated_at |-> now, stale |-> FALSE]

\* -------------------------------------------- WorkflowService.CreateSession
CreateSession ==
    /\ Cardinality(DOMAIN sessions) < MaxSessions
    /\ CanNewUUID
    /\ sessions' = Upsert(sessions, NewUUID, "active")
    /\ uuids' = uuids + 1
    /\ UNCHANGED << artifacts, deps, vectors, collection, steps, procs, provider, ncalls,
                    nitems, embOf, pubRec, seen, gone, cascaded, hist,
                    now >>
    /\ lastInv' = NoURL

\* ----------------------- WorkflowService.CompleteSession / FailSession
\* hit records whether the session was completed or failed when the call began.
SessionCall(p, op, status) ==
    /\ ncalls < MaxCalls
    /\ ncalls' = ncalls + 1
    /\ \E s \in (DOMAIN sessions) \cup {NilUUID} :
         procs' = Begin(p, [IdleProc EXCEPT !.op = op, !.pc = "ss_get",
                                            !.session = s, !.status = status,
                                            !.hit = /\ s \in DOMAIN sessions
                                                    /\ sessions[s] # "active"])
    /\ UNCHANGED << stores, uuids, provider, nitems, embOf, pubRec, seen, gone,
                    cascaded, hist, now >>
    /\ lastInv' = NoURL

\* session.Status = domain.SessionCompleted
CompleteSession(p) ==
    /\ procs[p].pc = "idle"
    /\ SessionCall(p, "CompleteSession", "completed")

\* session.Status = domain.SessionFailed
FailSession(p) ==
    /\ procs[p].pc = "idle"
    /\ SessionCall(p, "FailSession", "failed")

\* s.workflowRepo.GetSession(ctx, sessionID); "session not found" on nil.
GetSession(p) ==
    /\ procs[p].op \in {"CompleteSession", "FailSession"}
    /\ procs[p].pc = "ss_get"
    /\ procs' = [procs EXCEPT ![p] =
                    IF procs[p].session \in DOMAIN sessions
                    THEN [procs[p] EXCEPT !.pc = "ss_update"]
                    ELSE Fail(procs[p], "session_not_found")]
    /\ UNCHANGED << stores, uuids, provider, ncalls, nitems, embOf, pubRec, seen,
                    gone, cascaded, hist, now, lastInv >>

\* WorkflowRepository.UpdateSession: UPDATE workflow_sessions SET ...,
\* status = $5 WHERE id = $1.
UpdateSessionRow(ss, id, status) ==
    [x \in DOMAIN ss |-> IF x = id THEN status ELSE ss[x]]

\* s.workflowRepo.UpdateSession(ctx, session)
UpdateSession(p) ==
    /\ procs[p].op \in {"CompleteSession", "FailSession"}
    /\ procs[p].pc = "ss_update"
    /\ sessions' = UpdateSessionRow(sessions, procs[p].session, procs[p].status)
    /\ procs' = [procs EXCEPT ![p].pc = "done"]
    /\ UNCHANGED << artifacts, deps, vectors, collection, steps, uuids, provider, ncalls,
                    nitems, embOf, pubRec, seen, gone, cascaded, hist, now >>
    /\ lastInv' = NoURL

\* --------------------------------------------- WorkflowService.ExecuteStep
ExecuteDone(p, rec) ==
    /\ procs' = [procs EXCEPT ![p] = Snapshot([rec EXCEPT !.pc = "done"])]
    /\ hist' = HistAfter(rec)

\* The members of two objects are the same, in whatever order.
StructurallyEqual(b1, b2) ==
    {b1[n] : n \in 1..Len(b1)} = {b2[n] : n \in 1..Len(b2)}

\* WorkflowHandler.ExecuteStep binds the body and calls the service. fresh
\* records that no completed step had the pair when the call began, reordered
\* that a completed step of the type had the same input in another order.
ExecuteCall(p, bodies) ==
    /\ ncalls < MaxCalls
    /\ ncalls' = ncalls + 1
    /\ \E s \in (DOMAIN sessions) \cup {NilUUID}, t \in StepTypes, b \in bodies :
         LET rec == [IdleProc EXCEPT !.op = "ExecuteStep", !.pc = "ex_find",
                                     !.session = s, !.step_type = t,
                                     !.body = b, !.input = Decode(b),
                                     !.fresh = FindStepByInputHash(steps, t,
                                                   ComputeInputHash(Decode(b))) = {},
                                     !.reordered =
                                         \E x \in DOMAIN steps :
                                             /\ steps[x].status = "completed"
                                             /\ steps[x].step_type = t
                                             /\ steps[x].body # b
                                             /\ StructurallyEqual(steps[x].body, b)]
         IN  /\ procs' = Begin(p, rec)
             /\ hist' = [h \in (DOMAIN hist) \cup {PairKey(rec), TripleKey(rec)} |->
                           IF h \in {PairKey(rec), TripleKey(rec)} /\ Executing(h)
                           THEN [HistGet(h) EXCEPT !.ok = FALSE] ELSE HistGet(h)]
    /\ UNCHANGED << stores, uuids, provider, nitems, embOf, pubRec, seen, gone,
                    cascaded,
                    now >>
    /\ lastInv' = NoURL

ExecuteBegin(p) ==
    /\ procs[p].pc = "idle"
    /\ ExecuteCall(p, Inputs)

ExecuteBeginReordered(p) ==
    /\ procs[p].pc = "idle"
    /\ ExecuteCall(p, ReorderedInputs)

\* A look-up that sees only the steps of the calling session.
ExecuteFind_PerSession(p) ==
    /\ procs[p].op = "ExecuteStep"
    /\ procs[p].pc = "ex_find"
    /\ LET found == {x \in FindStepByInputHash(steps, procs[p].step_type,
                                                ComputeInputHash(procs[p].input)) :
                        steps[x].session_id = procs[p].session}
       IN  IF found # {}
           THEN \E x \in found :
                  procs' = [procs EXCEPT ![p].pc = "ex_cached", ![p].step = x,
                                         ![p].id = scanStepArtifactID(steps, x)]
           ELSE procs' = [procs EXCEPT ![p].pc = "ex_store_step"]
    /\ UNCHANGED << stores, uuids, provider, ncalls, nitems, embOf, pubRec, seen,
                    gone, cascaded, hist,
                    now, lastInv >>

\* inputHash, then s.workflowRepo.FindStepByInputHash(ctx, req.StepType, inputHash)
ExecuteFind(p) ==
    /\ procs[p].op = "ExecuteStep"
    /\ procs[p].pc = "ex_find"
    /\ LET found == FindStepByInputHash(steps, procs[p].step_type,
                                        ComputeInputHash(procs[p].input))
       IN  IF found # {}
           THEN \E x \in found :
                  procs' = [procs EXCEPT ![p].pc = "ex_cached", ![p].step = x,
                                         ![p].id = scanStepArtifactID(steps, x)]
           ELSE procs' = [procs EXCEPT ![p].pc = "ex_store_step"]
    /\ UNCHANGED << stores, uuids, provider, ncalls, nitems, embOf, pubRec, seen,
                    gone, cascaded, hist,
                    now, lastInv >>

\* A hit that moves the step row it found to the calling session.
ExecuteCached_Rehome(p) ==
    /\ procs[p].op = "ExecuteStep"
    /\ procs[p].pc = "ex_cached"
    /\ ExecuteDone(p, [procs[p] EXCEPT !.cached = TRUE,
                                       !.res = GetByID(artifacts, procs[p].id)])
    /\ steps' = [steps EXCEPT ![procs[p].step].session_id = procs[p].session]
    /\ UNCHANGED << artifacts, deps, vectors, collection, sessions, uuids, provider, ncalls,
                    nitems, embOf, pubRec, seen, gone, cascaded, now, lastInv >>

\* Cache hit: s.artifactRepo.GetByID(ctx, cachedStep.ArtifactID), Cached: true.
ExecuteCached(p) ==
    /\ procs[p].op = "ExecuteStep"
    /\ procs[p].pc = "ex_cached"
    /\ ExecuteDone(p, [procs[p] EXCEPT !.cached = TRUE,
                                       !.res = GetByID(artifacts, procs[p].id)])
    /\ UNCHANGED << stores, uuids, provider, ncalls, nitems, embOf, pubRec, seen,
                    gone, cascaded,
                    now, lastInv >>

\* Cache miss: a new step with status running, s.workflowRepo.StoreStep.
ExecuteStoreStep(p) ==
    /\ procs[p].op = "ExecuteStep"
    /\ procs[p].pc = "ex_store_step"
    /\ CanNewUUID
    /\ LET x == NewUUID
           row == [session_id |-> procs[p].session, step_type |-> procs[p].step_type,
                   artifact_id |-> NilUUID,
                   input_hash |-> ComputeInputHash(procs[p].input),
                   output_hash |-> EmptyHash, status |-> "running",
                   created_at |-> now, completed_at |-> Null,
                   body |-> procs[p].body]
       IN  IF StoreStepOk(steps, sessions, artifacts, x, row)
           THEN /\ steps' = Upsert(steps, x, row)
                /\ uuids' = uuids + 1
                /\ procs' = [procs EXCEPT ![p].pc = "ex_sim", ![p].step = x]
                /\ UNCHANGED hist
           ELSE /\ ExecuteDone(p, [procs[p] EXCEPT !.err = "store_step"])
                /\ UNCHANGED << steps, uuids >>
    /\ UNCHANGED << artifacts, deps, vectors, collection, sessions, provider, ncalls, nitems,
                    embOf, pubRec, seen, gone, cascaded,
                    now >>
    /\ lastInv' = NoURL

\* simulateStepExecution fails (the embedding call returned an error):
\* step.Status = StepFailed; s.workflowRepo.UpdateStep, its error ignored.
ExecuteSimulateFail(p) ==
    /\ procs[p].op = "ExecuteStep"
    /\ procs[p].pc = "ex_sim"
    /\ \E up \in BOOLEAN :
         GenerateEmbedding(provider, StepContent(procs[p].step_type, procs[p].input),
                           up).err
    /\ LET x == procs[p].step
           row == [steps[x] EXCEPT !.artifact_id = NilUUID, !.output_hash = EmptyHash,
                                   !.status = "failed"]
       IN  steps' = IF UpdateStepOk(steps, artifacts, x, row)
                    THEN Upsert(steps, x, row) ELSE steps
    /\ ExecuteDone(p, [procs[p] EXCEPT !.err = "execute", !.down = TRUE])
    /\ UNCHANGED << artifacts, deps, vectors, collection, sessions, uuids, provider, ncalls,
                    nitems, embOf, pubRec, seen, gone, cascaded,
                    now >>
    /\ lastInv' = NoURL

\* simulateStepExecution succeeds, then s.artifactRepo.Store(ctx, artifact).
ExecuteStoreArtifact(p) ==
    /\ procs[p].op = "ExecuteStep"
    /\ procs[p].pc = "ex_sim"
    /\ CanNewUUID
    /\ \E up \in BOOLEAN :
         LET e == GenerateEmbedding(provider,
                      StepContent(procs[p].step_type, procs[p].input), up)
             a == simulateStepExecution(NewUUID, procs[p].step_type,
                                        procs[p].input, e)
         IN  /\ ~ e.err
             /\ artifacts' = ArtifactStore(artifacts, a)
             /\ embOf' = Upsert(embOf, a.id, a.embedding)
             /\ uuids' = uuids + 1
             /\ procs' = [procs EXCEPT ![p].item = << a >>, ![p].id = a.id,
                                       ![p].by = e.by,
                                       ![p].down = ~ up /\ CanFail(provider),
                                       ![p].pc = IF a.embedding > 0 THEN "ex_vec"
                                                 ELSE "ex_update"]
    /\ UNCHANGED << deps, vectors, collection, sessions, steps, provider, ncalls, nitems,
                    pubRec, seen, gone, cascaded, hist,
                    now >>
    /\ lastInv' = NoURL

\* s.vectorRepo.Store(ctx, artifact.ID, artifact.Embedding, artifact.Metadata)
ExecuteVector(p) ==
    /\ procs[p].op = "ExecuteStep"
    /\ procs[p].pc = "ex_vec"
    /\ collection' = TRUE
    /\ LET a == Cur(p)
       IN  IF VectorAccepts(a.embedding)
           THEN /\ vectors' = VectorStore(vectors, a.id, Embedding(a), Metadata(a))
                /\ procs' = [procs EXCEPT ![p].pc = "ex_update"]
                /\ UNCHANGED hist
           ELSE /\ ExecuteDone(p, [procs[p] EXCEPT !.err = "store_vector"])
                /\ UNCHANGED vectors
    /\ UNCHANGED << artifacts, deps, sessions, steps, uuids, provider, ncalls,
                    nitems, embOf, pubRec, seen, gone, cascaded,
                    now >>
    /\ lastInv' = NoURL

\* step.ArtifactID, OutputHash, Status = completed, CompletedAt = &now;
\* s.workflowRepo.UpdateStep.
ExecuteUpdate(p) ==
    /\ procs[p].op = "ExecuteStep"
    /\ procs[p].pc = "ex_update"
    /\ LET a == Cur(p)
           x == procs[p].step
           row == [steps[x] EXCEPT !.artifact_id = a.id,
                                   !.output_hash = a.content_hash,
                                   !.status = "completed",
                                   !.completed_at = now]
       IN  IF UpdateStepOk(steps, artifacts, x, row)
           THEN /\ steps' = Upsert(steps, x, row)
                /\ ExecuteDone(p, [procs[p] EXCEPT !.res = {a}])
           ELSE /\ ExecuteDone(p, [procs[p] EXCEPT !.err = "update_step"])
                /\ UNCHANGED steps
    /\ UNCHANGED << artifacts, deps, vectors, collection, sessions, uuids, provider, ncalls,
                    nitems, embOf, pubRec, seen, gone, cascaded,
                    now >>
    /\ lastInv' = NoURL

\* ---------------------------------------------- WorkflowService.LookupStep
\* WorkflowRepository.FindSimilarSteps: the completed steps of the type,
\* ORDER BY created_at DESC LIMIT topK (rows of one instant in any order);
\* each result carries the artifact id the row had.
FindSimilarSteps(st, stepType, topK) ==
    LET cands == {x \in DOMAIN st : /\ st[x].step_type = stepType
                                    /\ st[x].status = "completed"}
        n == IF Cardinality(cands) < topK THEN Cardinality(cands) ELSE topK
    IN  { {<< x, scanStepArtifactID(st, x) >> : x \in S} :
            S \in {T \in SUBSET cands :
                     /\ Cardinality(T) = n
                     /\ \A x \in T, y \in cands \ T :
                            st[x].created_at >= st[y].created_at} }

\* WorkflowHandler.LookupStep: a top_k of 0 becomes 10.
LookupStepBegin(p) ==
    /\ procs[p].pc = "idle"
    /\ ncalls < MaxCalls
    /\ ncalls' = ncalls + 1
    /\ \E t \in StepTypes, b \in Inputs, k \in {0, 1} :
         procs' = Begin(p, [IdleProc EXCEPT !.op = "LookupStep", !.pc = "ls_embed",
                                            !.step_type = t, !.body = b,
                                            !.input = Decode(b),
                                            !.k = IF k = 0 THEN DefaultTopK ELSE k])
    /\ UNCHANGED << stores, uuids, provider, nitems, embOf, pubRec, seen, gone,
                    cascaded, hist, now >>
    /\ lastInv' = NoURL

\* s.embeddingService.GenerateEmbedding(ctx, fmt.Sprintf("%v", req.Input))
LookupStepEmbed(p) ==
    /\ procs[p].op = "LookupStep"
    /\ procs[p].pc = "ls_embed"
    /\ \E up \in BOOLEAN :
         LET e == GenerateEmbedding(provider, Sprint(procs[p].input), up)
         IN  procs' = [procs EXCEPT ![p] =
                 IF e.err
                 THEN [Fail(procs[p], "generate_embedding") EXCEPT !.down = TRUE]
                 ELSE [procs[p] EXCEPT !.pc = "ls_find", !.by = e.by,
                                       !.down = ~ up /\ CanFail(provider)]]
    /\ UNCHANGED << stores, uuids, provider, ncalls, nitems, embOf, pubRec, seen,
                    gone, cascaded, hist, now, lastInv >>

\* s.workflowRepo.FindSimilarSteps(ctx, req.StepType, embedding, req.TopK)
LookupStepFind(p) ==
    /\ procs[p].op = "LookupStep"
    /\ procs[p].pc = "ls_find"
    /\ \E S \in FindSimilarSteps(steps, procs[p].step_type, procs[p].k) :
         procs' = [procs EXCEPT ![p].hits = S,
                                ![p].pc = IF S = {} THEN "done" ELSE "ls_enrich"]
    /\ UNCHANGED << stores, uuids, provider, ncalls, nitems, embOf, pubRec, seen,
                    gone, cascaded, hist, now, lastInv >>

\* The enrich loop, one result per step: s.artifactRepo.GetByID for a result
\* whose step has an artifact id.
LookupStepEnrich(p) ==
    /\ procs[p].op = "LookupStep"
    /\ procs[p].pc = "ls_enrich"
    /\ \E h \in procs[p].hits :
         LET found == IF h[2] # NilUUID THEN GetByID(artifacts, h[2]) ELSE {}
             art == IF found = {} THEN Null ELSE h[2]
         IN  procs' = [procs EXCEPT
                 ![p].res = @ \cup {[step |-> h[1], artifact |-> art]},
                 ![p].hits = @ \ {h},
                 ![p].pc = IF procs[p].hits = {h} THEN "done" ELSE "ls_enrich"]
    /\ UNCHANGED << stores, uuids, provider, ncalls, nitems, embOf, pubRec, seen,
                    gone, cascaded, hist, now, lastInv >>

\* ------------------------------------ Publish beside the workflow API
\* The artifacts a client of the workflow API submits: new content under an
\* id it has read in a response, and, under a new id, the text an executed
\* step produces. Neither carries an embedding.
WorkflowInputs ==
    { [DefaultItem(c) EXCEPT !.id = x, !.embedding = 0]
          : c \in Contents, x \in (DOMAIN artifacts) \ {NilUUID} }
    \cup { [DefaultItem(StepContent(t, Decode(b))) EXCEPT !.embedding = 0]
              : t \in StepTypes, b \in Inputs }

PublishNextWorkflow(p) ==
    /\ procs[p].op = "Publish"
    /\ PublishItem(p, WorkflowInputs)

\* ------------------------------------------------------------ the system
\* A row with the zero UUID in table artifacts (no code path of the service
\* writes one; the database may hold it when the service starts).
SentinelRow ==
    [type |-> "RAW", content_hash |-> ComputeContentHash(SentinelContent),
     content |-> SentinelContent, source_url |-> NoURL, meta_type |-> "",
     updated_at |-> 0, stale |-> FALSE]

InitState(exists) ==
    /\ collection = exists
    /\ artifacts \in {<< >>, [x \in {NilUUID} |-> SentinelRow]}
    /\ embOf = [x \in DOMAIN artifacts |-> 0]
    /\ deps = {}
    /\ vectors = << >>
    /\ sessions = << >>
    /\ steps = << >>
    /\ procs = [p \in Procs |-> IdleProc]
    /\ uuids = 0
    /\ provider \in Providers
    /\ ncalls = 0
    /\ nitems = 0
    /\ pubRec = << >>
    /\ seen = [c \in Contents |-> 0]
    /\ gone = {}
    /\ cascaded = {}
    /\ hist = << >>
    /\ now = 0
    /\ lastInv = NoURL

\* The service starts over a database and a collection that a former run
\* has created.
Init == InitState(TRUE)

Next ==
    \/ \E p \in Procs : PublishBegin(p)
    \/ \E p \in Procs : PublishNext(p)
    \/ \E p \in Procs : PublishStore(p)
    \/ \E p \in Procs : PublishVector(p)
    \/ \E p \in Procs : PublishEnsure(p)
    \/ \E p \in Procs : PublishCreate(p)
    \/ \E p \in Procs : PublishUpsert(p)
    \/ \E p \in Procs : PublishDependency(p)
    \/ \E p \in Procs : PublishReturn(p)
    \/ \E p \in Procs : CacheGetByID(p)
    \/ \E p \in Procs : DeleteBegin(p)
    \/ \E p \in Procs : DeleteVector(p)
    \/ \E p \in Procs : DeleteArtifact(p)
    \/ CreateSession
    \/ \E p \in Procs : ExecuteBegin(p)
    \/ \E p \in Procs : ExecuteFind(p)
    \/ \E p \in Procs : ExecuteCached(p)
    \/ \E p \in Procs : ExecuteStoreStep(p)
    \/ \E p \in Procs : ExecuteSimulateFail(p)
    \/ \E p \in Procs : ExecuteStoreArtifact(p)
    \/ \E p \in Procs : ExecuteVector(p)
    \/ \E p \in Procs : ExecuteUpdate(p)
    \/ \E p \in Procs : Return(p)
    \/ \E p \in Procs : PublishNextIndexed(p)
    \/ \E p \in Procs : PublishNextKeyed(p)
    \/ \E p \in Procs : PublishNextWorkflow(p)
    \/ \E p \in Procs : Invalidate(p)
    \/ \E p \in Procs : LookupBegin(p)
    \/ \E p \in Procs : LookupBeginIndexed(p)
    \/ \E p \in Procs : LookupSearch(p)
    \/ \E p \in Procs : LookupEnrich(p)
    \/ Tick
    \/ \E p \in Procs : CompleteSession(p)
    \/ \E p \in Procs : FailSession(p)
    \/ \E p \in Procs : GetSession(p)
    \/ \E p \in Procs : UpdateSession(p)
    \/ \E p \in Procs : ExecuteBeginReordered(p)
    \/ \E p \in Procs : LookupStepBegin(p)
    \/ \E p \in Procs : LookupStepEmbed(p)
    \/ \E p \in Procs : LookupStepFind(p)
    \/ \E p \in Procs : LookupStepEnrich(p)

Spec == Init /\ [][Next]_vars

\* The cache service alone, on an empty database.
InitCache ==
    /\ Init
    /\ artifacts = << >>
    /\ provider = "mock"

NextCache ==
    \/ \E p \in Procs : PublishBegin(p)
    \/ \E p \in Procs : PublishNext(p)
    \/ \E p \in Procs : PublishStore(p)
    \/ \E p \in Procs : PublishVector(p)
    \/ \E p \in Procs : PublishDependency(p)
    \/ \E p \in Procs : PublishReturn(p)
    \/ \E p \in Procs : CacheGetByID(p)
    \/ \E p \in Procs : DeleteBegin(p)
    \/ \E p \in Procs : DeleteVector(p)
    \/ \E p \in Procs : DeleteArtifact(p)
    \/ \E p \in Procs : Return(p)

SpecCache == InitCache /\ [][NextCache]_vars

\* The cache service with its index: Publish, Invalidate and Lookup, under a
\* clock.
NextLookup ==
    \/ \E p \in Procs : PublishBegin(p)
    \/ \E p \in Procs : PublishNextIndexed(p)
    \/ \E p \in Procs : PublishStore(p)
    \/ \E p \in Procs : PublishVector(p)
    \/ \E p \in Procs : PublishDependency(p)
    \/ \E p \in Procs : PublishReturn(p)
    \/ \E p \in Procs : Invalidate(p)
    \/ \E p \in Procs : LookupBegin(p)
    \/ \E p \in Procs : LookupSearch(p)
    \/ \E p \in Procs : LookupEnrich(p)
    \/ Tick
    \/ \E p \in Procs : Return(p)

SpecLookup == InitCache /\ [][NextLookup]_vars

\* The workflow service, with Delete as the only cache operation.
NextWorkflow ==
    \/ CreateSession
    \/ \E p \in Procs : ExecuteBegin(p)
    \/ \E p \in Procs : ExecuteFind(p)
    \/ \E p \in Procs : ExecuteCached(p)
    \/ \E p \in Procs : ExecuteStoreStep(p)
    \/ \E p \in Procs : ExecuteSimulateFail(p)
    \/ \E p \in Procs : ExecuteStoreArtifact(p)
    \/ \E p \in Procs : ExecuteVector(p)
    \/ \E p \in Procs : ExecuteUpdate(p)
    \/ \E p \in Procs : DeleteBegin(p)
    \/ \E p \in Procs : DeleteVector(p)
    \/ \E p \in Procs : DeleteArtifact(p)
    \/ \E p \in Procs : Return(p)

SpecWorkflow == Init /\ [][NextWorkflow]_vars

\* ExecuteStep with request bodies whose members come in either order, on a
\* database that holds the zero-UUID row, with the openai provider.
InitInput ==
    /\ Init
    /\ artifacts # << >>
    /\ provider = "openai"

NextInput ==
    \/ CreateSession
    \/ \E p \in Procs : ExecuteBeginReordered(p)
    \/ \E p \in Procs : ExecuteFind(p)
    \/ \E p \in Procs : ExecuteCached(p)
    \/ \E p \in Procs : ExecuteStoreStep(p)
    \/ \E p \in Procs : ExecuteSimulateFail(p)
    \/ \E p \in Procs : ExecuteStoreArtifact(p)
    \/ \E p \in Procs : ExecuteVector(p)
    \/ \E p \in Procs : ExecuteUpdate(p)
    \/ \E p \in Procs : Return(p)

SpecInput == InitInput /\ [][NextInput]_vars

\* ExecuteStep and LookupStep over the embedding engine.
NextEngine ==
    \/ CreateSession
    \/ \E p \in Procs : ExecuteBegin(p)
    \/ \E p \in Procs : ExecuteFind(p)
    \/ \E p \in Procs : ExecuteCached(p)
    \/ \E p \in Procs : ExecuteStoreStep(p)
    \/ \E p \in Procs : ExecuteSimulateFail(p)
    \/ \E p \in Procs : ExecuteStoreArtifact(p)
    \/ \E p \in Procs : ExecuteVector(p)
    \/ \E p \in Procs : ExecuteUpdate(p)
    \/ \E p \in Procs : LookupStepBegin(p)
    \/ \E p \in Procs : LookupStepEmbed(p)
    \/ \E p \in Procs : LookupStepFind(p)
    \/ \E p \in Procs : LookupStepEnrich(p)
    \/ \E p \in Procs : Return(p)

SpecEngine == Init /\ [][NextEngine]_vars

\* The session operations of the workflow service.
NextSession ==
    \/ CreateSession
    \/ \E p \in Procs : CompleteSession(p)
    \/ \E p \in Procs : FailSession(p)
    \/ \E p \in Procs : GetSession(p)
    \/ \E p \in Procs : UpdateSession(p)
    \/ \E p \in Procs : Return(p)

SpecSession == Init /\ [][NextSession]_vars

\* Publish and ExecuteStep on one database, with the mock provider, which
\* never fails, and the zero-UUID row present.
InitMixed ==
    /\ Init
    /\ artifacts = (NilUUID :> SentinelRow)
    /\ provider = "mock"

NextMixed ==
    \/ CreateSession
    \/ \E p \in Procs : ExecuteBegin(p)
    \/ \E p \in Procs : ExecuteFind(p)
    \/ \E p \in Procs : ExecuteCached(p)
    \/ \E p \in Procs : ExecuteStoreStep(p)
    \/ \E p \in Procs : ExecuteStoreArtifact(p)
    \/ \E p \in Procs : ExecuteVector(p)
    \/ \E p \in Procs : ExecuteUpdate(p)
    \/ \E p \in Procs : PublishBegin(p)
    \/ \E p \in Procs : PublishNextWorkflow(p)
    \/ \E p \in Procs : PublishStore(p)
    \/ \E p \in Procs : PublishReturn(p)
    \/ \E p \in Procs : Return(p)

SpecMixed == InitMixed /\ [][NextMixed]_vars

\* Publish on a service whose vector collection has not been created yet,
\* each vector Store as the calls it makes to the index.
InitFresh ==
    /\ InitState(FALSE)
    /\ artifacts = << >>
    /\ provider = "mock"

NextFresh ==
    \/ \E p \in Procs : PublishBegin(p)
    \/ \E p \in Procs : PublishNextKeyed(p)
    \/ \E p \in Procs : PublishStore(p)
    \/ \E p \in Procs : PublishEnsure(p)
    \/ \E p \in Procs : PublishCreate(p)
    \/ \E p \in Procs : PublishUpsert(p)
    \/ \E p \in Procs : PublishReturn(p)
    \/ \E p \in Procs : Return(p)

SpecFresh == InitFresh /\ [][NextFresh]_vars

\* The cache API over an index of artifacts with client-chosen ids: Publish,
\* Lookup and Delete.
NextIndex ==
    \/ \E p \in Procs : PublishBegin(p)
    \/ \E p \in Procs : PublishNextKeyed(p)
    \/ \E p \in Procs : PublishStore(p)
    \/ \E p \in Procs : PublishVector(p)
    \/ \E p \in Procs : PublishReturn(p)
    \/ \E p \in Procs : LookupBeginIndexed(p)
    \/ \E p \in Procs : LookupSearch(p)
    \/ \E p \in Procs : LookupEnrich(p)
    \/ \E p \in Procs : DeleteBegin(p)
    \/ \E p \in Procs : DeleteVector(p)
    \/ \E p \in Procs : DeleteArtifact(p)
    \/ \E p \in Procs : Return(p)

SpecIndex == InitCache /\ [][NextIndex]_vars

\* ======================================================= claims C1 .. C10
Quiescent == \A p \in Procs : ~ InFlight(p)

Returned(p, op) == procs[p].pc = "done" /\ procs[p].op = op

Concurrent(p, q) == p # q /\ q \in procs[p].ovl /\ p \in procs[q].ovl

\* C1: in every reachable state at most one workflow step of a given
\* (step_type, input_hash) has status completed, whatever the interleaving
\* of the ExecuteStep calls.
C1_AtMostOneCompleted ==
    \A x \in DOMAIN steps, y \in DOMAIN steps :
        ( /\ x # y
          /\ steps[x].status = "completed"
          /\ steps[y].status = "completed" )
        => ~ ( /\ steps[x].step_type = steps[y].step_type
               /\ steps[x].input_hash = steps[y].input_hash )

\* A second executor of the same pair reached its completion update, with
\* its artifact stored, and the update was refused.
C1_Witness ==
    \E p \in Procs :
        /\ Returned(p, "ExecuteStep")
        /\ procs[p].err = "update_step"
        /\ procs[p].id \in DOMAIN artifacts
        /\ steps[procs[p].step].status = "running"
        /\ FindStepByInputHash(steps, procs[p].step_type,
                               ComputeInputHash(procs[p].input)) # {}

\* The call failed on the embedding provider or on the vector index.
Outage(rec) == rec.err \in {"execute", "store_vector"}

FirstMissThenHit(rec, h) ==
    (rec.err = "" /\ h.ok) =>
        IF h.n = 0 THEN ~ rec.cached
        ELSE rec.cached /\ ResponseArtifact(rec) = h.art

C4_LaterOccurrenceSkipped ==
    \A p \in Procs :
        (procs[p].op = "Publish" /\ InFlight(p) /\ procs[p].ovl = {}) =>
            /\ procs[p].pc = "pub_store" => seen[Cur(p).content] = 0
            /\ \A n \in 1..Len(procs[p].log) :
                   seen[procs[p].log[n].art.content] = procs[p].log[n].id

\* C5 (as stated): of two concurrent Publish calls that each carry one
\* artifact of the same content (not in the store before), exactly one
\* reports a published id, the other reports that id as skipped, and the
\* store holds exactly one artifact of that content_hash.
C5_ConcurrentPublishOneWinner ==
    \A p \in Procs, q \in Procs :
        ( /\ Concurrent(p, q)
          /\ Returned(p, "Publish") /\ Returned(q, "Publish")
          /\ procs[p].err = "" /\ procs[q].err = ""
          /\ Len(procs[p].log) = 1 /\ Len(procs[q].log) = 1
          /\ procs[p].log[1].art.content = procs[q].log[1].art.content
          /\ procs[p].log[1].art.content_hash = procs[q].log[1].art.content_hash
          /\ procs[p].log[1].outcome = "published" )
        => /\ procs[q].log[1].outcome = "skipped"
           /\ procs[q].log[1].id = procs[p].log[1].id
           /\ Cardinality(GetByContentHash(artifacts,
                              procs[p].log[1].art.content_hash)) = 1

\* C6 (as stated): when no operation is in progress, every stored artifact
\* that was published or produced with a non-empty embedding has a vector
\* point under its id.
C6_EmbeddingMirrored ==
    Quiescent =>
        \A id \in DOMAIN artifacts : embOf[id] > 0 => id \in DOMAIN vectors

\* C7 (as stated): every artifact persisted by Publish has
\* content_hash = content_hash(content).
C7_HashOfContent ==
    \A id \in DOMAIN pubRec :
        id \in DOMAIN artifacts =>
            artifacts[id].content_hash = ComputeContentHash(artifacts[id].content)

\* C8 (as stated): GetByID of an id a successful Publish reported returns
\* the artifact as it was published (its id is the assigned one), embedding
\* and dependencies included.
C8_GetReturnsPublished ==
    \A p \in Procs :
        (Returned(p, "GetByID") /\ procs[p].snap # << >>) =>
            procs[p].res = {procs[p].snap[1]}

\* C9 (as stated): once Delete(id) has returned, and until id is published
\* again, GetByID(id) finds nothing and neither a vector search nor a Lookup
\* can return id.
C9_DeletedStaysGone ==
    \A id \in gone :
        /\ GetByID(artifacts, id) = {}
        /\ id \notin SearchIds(vectors)
        /\ id \notin LookupIds(vectors, artifacts)

\* C10: the artifact-store step of Delete(P) returns no error, leaves no
\* dependency edge that references P, leaves every other artifact (the
\* children of P among them) as it was, and changes no store at all when P is
\* not there; the vector step of a repeated Delete(P), P deleted with its
\* edges and not published since, changes nothing either.
C10_DeleteCascades ==
    [][ \A p \in Procs :
          /\ ( /\ procs[p].op = "Delete"
               /\ procs[p].pc = "del_art"
               /\ procs'[p].pc = "done" )
             => /\ procs'[p].err = ""
                /\ \A e \in deps' : e[1] # procs[p].id /\ e[2] # procs[p].id
                /\ \A x \in (DOMAIN artifacts) \ {procs[p].id} :
                       x \in DOMAIN artifacts' /\ artifacts'[x] = artifacts[x]
                /\ procs[p].id \notin DOMAIN artifacts => UNCHANGED stores
          /\ ( /\ procs[p].op = "Delete"
               /\ procs[p].pc = "del_vec"
               /\ procs'[p].pc = "del_art"
               /\ procs[p].id \in cascaded )
             => UNCHANGED stores
      ]_vars

\* A repeated Delete of a parent returned without error after the first one
\* had removed its edges, the child still being stored.
C10_Witness ==
    \E p \in Procs :
        /\ Returned(p, "Delete")
        /\ procs[p].err = ""
        /\ procs[p].k = 0
        /\ ~ procs[p].hit
        /\ procs[p].id \in cascaded
        /\ DOMAIN artifacts # {}
        /\ deps = {}

\* ====================================================== claims C11 .. C20
ResultIds(rec) == {r.id : r \in rec.res}

\* C11 (as stated): a Lookup with include_stale=false returns no artifact
\* whose stale flag is true.
C11_NoStaleResults ==
    \A p \in Procs :
        (Returned(p, "Lookup") /\ ~ procs[p].opts.include_stale) =>
            \A r \in procs[p].res : ~ r.stale

\* The columns of a row that Invalidate must leave alone.
Kept(row) == [type |-> row.type, content |-> row.content,
              content_hash |-> row.content_hash, source_url |-> row.source_url,
              meta_type |-> row.meta_type]

\* C12: Invalidate(u) sets stale on exactly the stored artifacts whose
\* source_url is u, leaves the stale flag of every other artifact as it was
\* (dependents of the invalidated artifacts included), and changes no type,
\* content, content_hash or metadata, no dependency edge and no vector point.
C12_InvalidateFrame ==
    [][ \A p \in Procs :
          ( /\ procs[p].pc = "idle"
            /\ procs'[p].pc = "done"
            /\ procs'[p].op = "Invalidate" )
          => /\ DOMAIN artifacts' = DOMAIN artifacts
             /\ \A id \in DOMAIN artifacts :
                   /\ artifacts'[id].stale =
                         IF artifacts[id].source_url = procs'[p].url THEN TRUE
                         ELSE artifacts[id].stale
                   /\ Kept(artifacts'[id]) = Kept(artifacts[id])
             /\ deps' = deps
             /\ vectors' = vectors
      ]_vars

\* An Invalidate returned that marked a parent and not the artifact that
\* depends on it.
C12_Witness ==
    \E p \in Procs :
        /\ Returned(p, "Invalidate")
        /\ procs[p].k >= 1
        /\ \E e \in deps :
              /\ e[1] # e[2]
              /\ artifacts[e[1]].source_url = procs[p].url
              /\ artifacts[e[1]].stale
              /\ ~ artifacts[e[2]].stale

\* C13 (as stated): an Invalidate(u) that follows an Invalidate(u) with no
\* other operation in between, at whatever later clock tick, leaves every
\* artifact as it is, updated_at included.
C13_InvalidateIdempotent ==
    [][ \A p \in Procs :
          ( /\ procs[p].pc = "idle"
            /\ procs'[p].pc = "done"
            /\ procs'[p].op = "Invalidate"
            /\ procs'[p].url = lastInv )
          => artifacts' = artifacts
      ]_vars

\* C14 (as stated): a Lookup with min_score=0.99 returns the indexed artifacts
\* whose embedding is the engine's embedding of the query text, and none whose
\* embedding is the engine's embedding of another text.
C14_LookupUsesEngine ==
    \A p \in Procs :
        ( /\ Returned(p, "Lookup")
          /\ procs[p].snap # << >>
          /\ procs[p].opts.min_score = 99 )
        => \A id \in (DOMAIN procs[p].snap[1].vs) \cap (DOMAIN procs[p].snap[1].arts) :
              procs[p].snap[1].vs[id].vec[1] = "engine" =>
                  ( id \in ResultIds(procs[p])
                    <=> procs[p].snap[1].vs[id].vec = EngineVec(procs[p].opts.query) )

\* C15 (as stated): a Lookup with top_k=0 returns an empty result list.
C15_TopKZeroEmpty ==
    \A p \in Procs :
        (Returned(p, "Lookup") /\ procs[p].opts.top_k = 0) => procs[p].res = {}

\* C16 (as stated): every result of a Lookup with artifact_type=t has type t,
\* and every indexed non-stale artifact of type t within min_score (top_k
\* not reached) is among the results.
C16_TypeFilter ==
    \A p \in Procs :
        ( /\ Returned(p, "Lookup")
          /\ procs[p].snap # << >>
          /\ procs[p].opts.artifact_type # "" )
        => /\ \A r \in procs[p].res : r.type = procs[p].opts.artifact_type
           /\ \A id \in (DOMAIN procs[p].snap[1].vs) \cap (DOMAIN procs[p].snap[1].arts) :
                 ( /\ procs[p].snap[1].arts[id].type = procs[p].opts.artifact_type
                   /\ ~ procs[p].snap[1].arts[id].stale
                   /\ Cosine(generateSimpleEmbedding(procs[p].opts.query),
                             procs[p].snap[1].vs[id].vec) >= MinScore(procs[p].opts)
                   /\ Cardinality(DOMAIN procs[p].snap[1].vs) <= TopK(procs[p].opts) )
                 => id \in ResultIds(procs[p])

\* C17 (as stated): no step of a Publish call changes the type, content,
\* content_hash or metadata stored under the id of a published artifact.
C17_PublishedImmutable ==
    [][ \A p \in Procs :
          (procs[p].op = "Publish" /\ procs[p].pc = "pub_store") =>
              \A id \in (DOMAIN pubRec) \cap (DOMAIN artifacts) \cap (DOMAIN artifacts') :
                  Kept(artifacts'[id]) = Kept(artifacts[id])
      ]_vars

\* The edges reachable in at most n + 1 steps.
RECURSIVE Paths(_, _)
Paths(d, n) ==
    IF n = 0 THEN d
    ELSE LET r == Paths(d, n - 1)
         IN  r \cup {<< x[1][1], x[2][2] >> :
                        x \in {y \in r \X d : y[1][2] = y[2][1]}}

\* C18 (as stated): the dependency edges form a DAG: no self-edge, no cycle.
C18_DependenciesAcyclic ==
    \A e \in Paths(deps, Cardinality(deps)) : e[1] # e[2]

C20_DependencyListing ==
    \A c \in DOMAIN pubRec :
        \A n \in 1..Len(pubRec[c].dependencies) :
            LET P == pubRec[c].dependencies[n]
            IN  << P, c >> \in deps =>
                    /\ GetDependencies(deps, c) = {e[1] : e \in {x \in deps : x[2] = c}}
                    /\ GetDependents(deps, P) = {e[2] : e \in {x \in deps : x[1] = P}}

\* ====================================================== claims C21 .. C30
\* C21 (as stated): a CompleteSession or FailSession call that began when
\* the session's status was completed or failed does not change the status.
C21_SessionTerminal ==
    [][ \A p \in Procs :
          ( /\ procs[p].pc = "ss_update"
            /\ procs'[p].pc = "done"
            /\ procs[p].hit )
          => sessions'[procs[p].session] = sessions[procs[p].session]
      ]_vars

\* C22: no operation removes a step row, changes the status of a completed
\* or failed step, or moves a running step back to pending.
C22_StepStatusMonotonic ==
    [][ \A x \in DOMAIN steps :
          /\ x \in DOMAIN steps'
          /\ steps[x].status \in {"completed", "failed"} =>
                 steps'[x].status = steps[x].status
          /\ steps[x].status = "running" => steps'[x].status # "pending"
      ]_vars

\* A completed step whose artifact a Delete removed, still completed, and an
\* ExecuteStep call that has returned with its step.
C22_Witness ==
    /\ \E x \in DOMAIN steps :
          steps[x].status = "completed" /\ steps[x].artifact_id = Null
    /\ \E p \in Procs : Returned(p, "ExecuteStep") /\ procs[p].step # NoStep

\* C23: two request inputs with the same members in different orders have
\* the same input_hash, and an ExecuteStep that begins when a completed step
\* of its type has its input in another member order returns cached=true.
C23_KeyOrderIndependent ==
    /\ \A b1 \in ReorderedInputs, b2 \in ReorderedInputs :
          StructurallyEqual(b1, b2) =>
              ComputeInputHash(Decode(b1)) = ComputeInputHash(Decode(b2))
    /\ \A p \in Procs :
          (Returned(p, "ExecuteStep") /\ procs[p].reordered) => procs[p].cached

\* An ExecuteStep returned cached=true with the step of a request whose
\* input had the members in the other order.
C23_Witness ==
    \E p \in Procs :
        /\ Returned(p, "ExecuteStep")
        /\ procs[p].reordered
        /\ procs[p].cached
        /\ steps[procs[p].step].body # procs[p].body
        /\ StructurallyEqual(steps[procs[p].step].body, procs[p].body)

\* Process p serves a call that uses the embedding engine.
EngineCall(p) == procs[p].op \in {"ExecuteStep", "LookupStep"}

C25_MockFallback ==
    \A p \in Procs :
        (EngineCall(p) /\ procs[p].pc = "done" /\ procs[p].down) =>
            procs[p].err = "" /\ procs[p].by = "mock"

C27_RunningStepInserted ==
    /\ \A x \in DOMAIN steps :
          steps[x].status = "running" => steps[x].artifact_id = Null
    /\ \A p \in Procs :
          (Returned(p, "ExecuteStep") /\ procs[p].session \in DOMAIN sessions)
              => procs[p].err # "store_step"

C29_CachedChangesNothing ==
    [][ \A p \in Procs :
          ( /\ procs'[p].op = "ExecuteStep"
            /\ \/ procs[p].pc = "idle" /\ procs'[p].pc = "ex_find"
               \/ procs[p].pc = "ex_find" /\ procs'[p].pc = "ex_cached"
               \/ procs[p].pc = "ex_cached" /\ procs'[p].pc = "done" )
          => /\ steps' = steps
             /\ artifacts' = artifacts
             /\ deps' = deps
             /\ vectors' = vectors
      ]_vars

\* A call returned cached=true with the step of another session, and that
\* session is still the owner of the only step row.
C29_Witness ==
    \E p \in Procs :
        /\ Returned(p, "ExecuteStep")
        /\ procs[p].cached
        /\ procs[p].session \in DOMAIN sessions
        /\ steps[procs[p].step].session_id # procs[p].session
        /\ \A x \in DOMAIN steps : steps[x].session_id # procs[p].session

C31_FailedNeverHit ==
    \A p \in Procs :
        procs[p].op = "ExecuteStep" =>
            /\ (procs[p].pc = "ex_cached" \/ procs[p].cached) =>
                   steps[procs[p].step].status = "completed"
            /\ (Returned(p, "ExecuteStep") /\ procs[p].fresh /\ procs[p].ovl = {}) =>
                   /\ ~ procs[p].cached
                   /\ procs[p].err # "store_step" =>
                          /\ procs[p].step \in DOMAIN steps
                          /\ steps[procs[p].step].session_id = procs[p].session
                          /\ steps[procs[p].step].body = procs[p].body

\* A call has returned a fresh result for a pair that another, failed step
\* row already had.
C31_Witness ==
    \E p \in Procs :
        /\ Returned(p, "ExecuteStep")
        /\ procs[p].fresh /\ ~ procs[p].cached /\ procs[p].err = ""
        /\ procs[p].step \in DOMAIN steps
        /\ steps[procs[p].step].status = "completed"
        /\ \E y \in (DOMAIN steps) \ {procs[p].step} :
               /\ steps[y].status = "failed"
               /\ steps[y].step_type = procs[p].step_type
               /\ steps[y].input_hash = steps[procs[p].step].input_hash

NonOverlapping ==
    /\ \A p \in Procs : procs[p].ovl = {}
    /\ ncalls = Cardinality({p \in Procs : procs[p].op # "none"})

C33_DedupAcrossSessions ==
    \A p \in Procs :
        (Returned(p, "ExecuteStep") /\ ~ procs[p].fresh) =>
            /\ procs[p].err = ""
            /\ procs[p].cached
            /\ procs[p].step \in DOMAIN steps
            /\ LET st == steps[procs[p].step]
               IN  /\ st.status = "completed"
                   /\ st.step_type = procs[p].step_type
                   /\ st.input_hash = ComputeInputHash(procs[p].input)
                   /\ ResponseArtifact(procs[p]) = st.artifact_id
                   /\ \A a \in procs[p].res : a.content_hash = st.output_hash

\* A call made in session B was answered with the step and the artifact of
\* session A.
C33_Witness ==
    \E p \in Procs :
        /\ Returned(p, "ExecuteStep")
        /\ ~ procs[p].fresh /\ procs[p].cached
        /\ procs[p].session \in DOMAIN sessions
        /\ steps[procs[p].step].session_id \in (DOMAIN sessions) \ {procs[p].session}
        /\ procs[p].res # {}
        /\ ResponseArtifact(procs[p]) = steps[procs[p].step].artifact_id

\* C35: each turn of Lookup's enrich loop takes the next hit of the search
\* response; if the artifact store holds the artifact at that moment, the
\* artifact as stored is appended to the results with the hit's score,
\* otherwise the hit is dropped and the results stay as they were; the
\* results are by descending score at every moment.
C35_LookupResults ==
    [][ \A p \in Procs :
          ( /\ procs[p].op = "Lookup"
            /\ procs[p].pc = "lk_enrich"
            /\ Len(procs'[p].rank) < Len(procs[p].rank) )
          => LET id == Head(procs[p].rank)
                 old == procs[p].out
                 new == procs'[p].out
             IN  /\ IF id \in DOMAIN artifacts
                    THEN /\ Len(new) = Len(old) + 1
                         /\ SubSeq(new, 1, Len(old)) = old
                         /\ new[Len(new)].id = id
                         /\ procs'[p].res = procs[p].res \cup {scanArtifact(artifacts, id)}
                    ELSE /\ new = old
                         /\ procs'[p].res = procs[p].res
                 /\ \A i, j \in 1..Len(new) : i < j => new[i].score >= new[j].score
                 /\ {new[i].id : i \in 1..Len(new)} = ResultIds(procs'[p])
      ]_vars

\* A Lookup returned after the search gave two hits of different scores and
\* the artifact of one of them had been deleted: one result.
C35_Witness ==
    \E p \in Procs :
        /\ Returned(p, "Lookup")
        /\ Cardinality(procs[p].hits) = 2
        /\ \E x, y \in procs[p].hits :
               Cosine(generateSimpleEmbedding(procs[p].opts.query),
                      procs[p].snap[1].vs[x].vec)
               > Cosine(generateSimpleEmbedding(procs[p].opts.query),
                        procs[p].snap[1].vs[y].vec)
        /\ Len(procs[p].out) = 1
        /\ ResultIds(procs[p]) = {procs[p].out[1].id}

\* C36: the points a vector search returned all carry, for each filter entry
\* with a string value, that value under the entry's key in their payload;
\* and the search with the whole filter has the results of the search with
\* the string-valued entries alone (an entry such as stale=false changes
\* nothing).
C36_FilterStringsOnly ==
    \A p \in Procs :
        (procs[p].op = "Lookup" /\ procs[p].snap # << >>) =>
            LET vs == procs[p].snap[1].vs
                q == generateSimpleEmbedding(procs[p].opts.query)
                filter == BuildFilter(procs[p].opts)
                strings == {kv \in filter : kv[2].kind = "string"}
            IN  /\ \A id \in procs[p].hits, kv \in strings :
                       kv[1] = "type" /\ vs[id].payload.type = kv[2].val
                /\ procs[p].hits \in Search(vs, q, TopK(procs[p].opts),
                                             MinScore(procs[p].opts), strings)
                /\ Search(vs, q, TopK(procs[p].opts), MinScore(procs[p].opts), filter)
                   = Search(vs, q, TopK(procs[p].opts), MinScore(procs[p].opts),
                            strings)

\* A search with type = "RAW" and stale = false in its filter returned a
\* point and left out a point of the same score range whose payload has
\* another type.
C36_Witness ==
    \E p \in Procs :
        /\ Returned(p, "Lookup")
        /\ procs[p].opts.artifact_type = "RAW"
        /\ ~ procs[p].opts.include_stale
        /\ procs[p].hits # {}
        /\ \E id \in (DOMAIN procs[p].snap[1].vs) \ procs[p].hits :
               /\ procs[p].snap[1].vs[id].payload.type # "RAW"
               /\ Cosine(generateSimpleEmbedding(procs[p].opts.query),
                         procs[p].snap[1].vs[id].vec) >= MinScore(procs[p].opts)

\* The error of the store call that ExecuteStep's next step makes in this
\* state, "" if the call succeeds; failing tells that the step taken from
\* "ex_sim" is the one after an embedding error (UpdateStep to failed).
StoreError(p, failing) ==
    LET rec == procs[p]
        x == rec.step
    IN  CASE rec.pc = "ex_store_step"
               /\ ~ StoreStepOk(steps, sessions, artifacts, NewUUID,
                                [session_id |-> rec.session, step_type |-> rec.step_type,
                                 artifact_id |-> NilUUID, status |-> "running",
                                 input_hash |-> ComputeInputHash(rec.input)])
               -> "store_step"
          [] rec.pc = "ex_sim" /\ failing
               /\ ~ UpdateStepOk(steps, artifacts, x,
                                 [steps[x] EXCEPT !.artifact_id = NilUUID,
                                                  !.status = "failed"])
               -> "update_step"
          [] rec.pc = "ex_vec" /\ ~ VectorAccepts(Cur(p).embedding)
               -> "store_vector"
          [] rec.pc = "ex_update"
               /\ ~ UpdateStepOk(steps, artifacts, x,
                                 [steps[x] EXCEPT !.artifact_id = Cur(p).id,
                                                  !.status = "completed"])
               -> "update_step"
          [] OTHER -> ""

C38_NoOrphanVector ==
    \A p, q \in Procs :
        ( /\ Returned(p, "Publish") /\ Returned(q, "Delete")
          /\ Concurrent(p, q)
          /\ procs[q].id \in ClientIds
          /\ \E n \in 1..Len(procs[p].log) :
                 /\ procs[p].log[n].id = procs[q].id
                 /\ procs[p].log[n].art.embedding > 0 )
        => (procs[q].id \in DOMAIN vectors => procs[q].id \in DOMAIN artifacts)

\* C40: a Lookup that overlapped no other request never appends to its
\* results an artifact that was last stored by a Publish which has
\* returned and that carried no embedding.
C40_NoEmbeddingNoResult ==
    [][ \A p \in Procs :
          ( /\ procs[p].op = "Lookup"
            /\ procs[p].pc = "lk_enrich"
            /\ procs[p].ovl = {}
            /\ Len(procs'[p].out) > Len(procs[p].out)
            /\ Head(procs[p].rank) \in DOMAIN pubRec
            /\ Head(procs[p].rank) \in DOMAIN embOf )
          => embOf[Head(procs[p].rank)] > 0
      ]_vars

\* C39: no vector Store fails because the collection it did not see in the
\* list had been created by the other writer when it came to create it: of
\* two Publish calls that ran concurrently on a service without collection,
\* neither returns the error of CreateCollection.
C39_ConcurrentFirstWrites ==
    \A p, q \in Procs :
        (Returned(p, "Publish") /\ Returned(q, "Publish") /\ Concurrent(p, q))
        => procs[p].err # "create_collection"
====
